---- MODULE Spec2Model ----
(***************************************************************************)
(* The multi-tenant bulkhead API of server.js and worker.js: per tier a    *)
(* RateLimiterMemory (free, pro), an opossum CircuitBreaker, a Piscina     *)
(* worker pool and the pg connections its worker tasks open.  The main     *)
(* thread of Node runs each callback to completion, so one action is one   *)
(* callback of the event loop (a request handler up to the point where it  *)
(* answers or waits for its worker task, a worker's message, a timer) or   *)
(* one step of a worker thread.  Time advances in ticks of TickMs, and a   *)
(* timer that is due fires before time advances further.                   *)
(***************************************************************************)
EXTENDS Integers, Sequences, FiniteSets, TLC

VARIABLES
    limiter,    \* limiter[t][ip]: the RateLimiterMemory record of key ip, or NoRec
    breaker,    \* breaker[t]: the opossum breaker's state, flags and rolling window
    pool,       \* pool[t]: the Piscina pool's tasks, oldest first (running and queued)
    resp,       \* the response this step sent (tier header, status, cause), or NoResp
    nreq,       \* requests received so far
    win,        \* win[t][ip]: requests admitted / denied in the key's current window
    conns       \* conns[t]: pg clients checked out by the tier's worker tasks

vars == <<limiter, breaker, pool, resp, nreq, win, conns>>

----------------------------------------------------------------------------
(* Configuration, server.js lines 13-76                                     *)

Tiers == {"free", "pro", "enterprise"}

\* Properties every JavaScript object literal inherits from Object.prototype:
\* obj[name] is defined (truthy) for them although obj has no such key.
ProtoProps == {"constructor"}

\* Values of the X-Tenant-Tier header: the tiers, a name that is no tier
\* (a missing header behaves alike) and an inherited property name.
Headers == Tiers \cup {"gold"} \cup ProtoProps

\* req.ip
Keys == {"ip1", "ip2"}

\* req.query.force_error: the worker fails only on the exact string 'true'
FeValues == {"true", "none"}

poolConfigs == [free |-> [max |-> 5], pro |-> [max |-> 20], enterprise |-> [max |-> 50]]

threadPools == [free |-> [maxThreads |-> 10], pro |-> [maxThreads |-> 30],
                enterprise |-> [maxThreads |-> 60]]

\* mutant: tier enterprise has a limiter like tier free
limiters_withEnterprise ==
    [free |-> [points |-> 100, duration |-> 60],
     pro  |-> [points |-> 1000, duration |-> 60],
     enterprise |-> [points |-> 100, duration |-> 60]]

limiters == [free |-> [points |-> 100, duration |-> 60],
             pro  |-> [points |-> 1000, duration |-> 60]]

timeout == 3000
errorThresholdPercentage == 50
resetTimeout == 10000
\* opossum's defaults for the options createBreaker leaves unset
rollingCountTimeout == 10000
rollingCountBuckets == 10
volumeThreshold == 0

\* One tick of time: the interval at which opossum rotates its stats buckets.
TickMs == rollingCountTimeout \div rollingCountBuckets

\* Bounds of the model: requests sent by arbitrary clients (any header, key
\* and flag), and requests sent to one tier by one client
MaxReq == 2
MaxTierReq == 3

\* load-test.sh, step 3: consecutive requests with force_error=true
TripRequests == 10
\* ticks that pass during and after step 3
MaxTripTicks == 11

\* a flooding caller sends up to MaxExcess requests more than its quota, a
\* second caller up to MaxExcess requests; a caller of the burst has at most
\* MaxInflight requests outstanding; MaxEntReq requests go to tier
\* enterprise during the flood of tier free
MaxExcess == 5
MaxInflight == 2
MaxEntReq == 2

\* a burst of up to MaxBurst requests to one tier within a tick, followed by
\* MaxPoolTicks ticks
MaxBurst == 22
MaxPoolTicks == 4

----------------------------------------------------------------------------
(* Helpers                                                                  *)

NoRec == [consumed |-> 0, age |-> -1]

\* obj[name] is truthy: an own key or an inherited property
Truthy(obj, name) == name \in DOMAIN obj \/ name \in ProtoProps

\* A timer set `age` ticks ago for `ms` milliseconds is due
Due(age, ms) == age * TickMs >= ms

emptyBucket == [fires |-> 0, failures |-> 0]

RECURSIVE SumFires(_), SumFailures(_)
SumFires(w) == IF w = <<>> THEN 0 ELSE Head(w).fires + SumFires(Tail(w))
SumFailures(w) == IF w = <<>> THEN 0 ELSE Head(w).failures + SumFailures(Tail(w))

\* opossum Status.stats: the sums over the rolling window
stats(b) == [fires |-> SumFires(b.window), failures |-> SumFailures(b.window)]

\* Status.increment: events are counted in the newest bucket
IncFires(b) == [b EXCEPT !.window[1].fires = @ + 1]
IncFailures(b) == [b EXCEPT !.window[1].failures = @ + 1]

\* Status's interval: drop the oldest bucket, open a new one
Rotate(w) == <<emptyBucket>> \o SubSeq(w, 1, Len(w) - 1)

----------------------------------------------------------------------------
(* rate-limiter-flexible, RateLimiterMemory.consume(key) with one point     *)

\* mutant: a record that outlived its window is added to
Incrby_noRestart(rec, t) ==
    [consumed |-> rec.consumed + 1, age |-> IF rec = NoRec THEN 0 ELSE rec.age]

\* MemoryStorage.incrby: add to a live record, else start a new window
Incrby(rec, t) ==
    IF rec # NoRec /\ ~Due(rec.age, limiters[t].duration * 1000)
    THEN [rec EXCEPT !.consumed = @ + 1]
    ELSE [consumed |-> 1, age |-> 0]

\* mutant: the request that uses the last point is rejected too
ConsumeRejects_atLimit(rec, t) == rec.consumed >= limiters[t].points

\* consume rejects when the points consumed exceed the limiter's points
ConsumeRejects(rec, t) == rec.consumed > limiters[t].points

----------------------------------------------------------------------------
(* opossum CircuitBreaker                                                   *)

\* breaker.opened / halfOpen / closed
opened(b) == b.state = "OPEN"
halfOpen(b) == b.state = "HALF_OPEN"
closed(b) == b.state = "CLOSED"

\* mutant: only a HALF_OPEN breaker with its trial in flight rejects
FireRejects_halfOpenOnly(b) == halfOpen(b) /\ ~b.pendingClose

\* fire: the call is rejected unless the breaker is closed or awaits its trial
FireRejects(b) == ~closed(b) /\ ~b.pendingClose

\* open(): enter OPEN and start the reset timer; nothing when already open
Open(b) ==
    IF opened(b) THEN b
    ELSE [b EXCEPT !.state = "OPEN", !.pendingClose = FALSE, !.openAge = 0]

\* close(): enter CLOSED and clear the reset timer
Close(b) ==
    IF closed(b) THEN b
    ELSE [b EXCEPT !.state = "CLOSED", !.pendingClose = FALSE, !.openAge = 0]

\* mutant: the failure ratio is compared with the percentage
Trips_ratio(b) ==
    /\ ~(stats(b).fires < volumeThreshold /\ ~halfOpen(b))
    /\ \/ stats(b).failures > errorThresholdPercentage * stats(b).fires
       \/ halfOpen(b)

\* fail(): whether the failure just counted opens the breaker
Trips(b) ==
    /\ ~(stats(b).fires < volumeThreshold /\ ~halfOpen(b))
    /\ \/ stats(b).failures * 100 > errorThresholdPercentage * stats(b).fires
       \/ halfOpen(b)

\* handleError -> fail: count the failure, open when the error rate says so
Fail(b) == LET c == IncFailures(b) IN IF Trips(c) THEN Open(c) ELSE c

\* mutant: any success closes a breaker that is not closed
Succeed_whenOpen(b) == IF ~closed(b) THEN Close(b) ELSE b

\* the 'success' event: a success in HALF_OPEN closes the breaker
Succeed(b) == IF halfOpen(b) THEN Close(b) ELSE b

\* server.js line 106: the status of a request whose fire() rejected
ErrorStatus(b) == IF opened(b) THEN 503 ELSE 500

----------------------------------------------------------------------------
(* Piscina                                                                  *)

Running(p) == {i \in 1..Len(p) : p[i].phase # "queued"}
Queued(p) == {i \in 1..Len(p) : p[i].phase = "queued"}
\* tasks whose breaker call is still pending (neither answered nor timed out)
Pending(p) == {i \in 1..Len(p) : ~p[i].settled}
\* tasks between pool.connect() and their finally block
Connections(p) == {i \in 1..Len(p) : p[i].phase = "conn"}

\* run(): the task goes to a free worker thread, else to the queue
Run(p, t, fe) ==
    Append(p, [fe |-> fe, age |-> 0, settled |-> FALSE,
               phase |-> IF Cardinality(Running(p)) < threadPools[t].maxThreads
                         THEN "run" ELSE "queued"])

RemoveAt(p, i) == SubSeq(p, 1, i - 1) \o SubSeq(p, i + 1, Len(p))

\* a worker finished task i: the thread takes the oldest queued task
Finish(p, i) ==
    LET q == RemoveAt(p, i) IN
    IF Queued(q) = {} THEN q
    ELSE LET j == CHOOSE j \in Queued(q) : \A k \in Queued(q) : j <= k
         IN [q EXCEPT ![j].phase = "run"]

----------------------------------------------------------------------------
(* State after construction: no limiter records, breakers CLOSED with an    *)
(* empty window, idle worker pools                                          *)

NoResp == [tier |-> "none", status |-> 0, why |-> "none"]

NoWin == [admitted |-> 0, denied |-> 0]

createBreaker ==
    [state |-> "CLOSED", pendingClose |-> FALSE, openAge |-> 0,
     window |-> [n \in 1..rollingCountBuckets |-> emptyBucket]]

Init ==
    /\ limiter = [t \in DOMAIN limiters |-> [ip \in Keys |-> NoRec]]
    /\ win = [t \in DOMAIN limiters |-> [ip \in Keys |-> NoWin]]
    /\ breaker = [t \in Tiers |-> createBreaker]
    /\ pool = [t \in Tiers |-> <<>>]
    /\ resp = NoResp
    /\ nreq = 0
    /\ conns = [t \in Tiers |-> 0]

----------------------------------------------------------------------------
(* GET /api/data, server.js lines 81-109                                    *)

Respond(h, s, why) == resp' = [tier |-> h, status |-> s, why |-> why]

\* the key's window count after a consumption that left record rec
Count(w, rec, denied) ==
    LET base == IF rec.consumed = 1 THEN NoWin ELSE w IN
    IF denied THEN [base EXCEPT !.denied = @ + 1]
    ELSE [base EXCEPT !.admitted = @ + 1]

\* mutant: the trial's admission does not clear pendingClose
Fire_keepsPending(t, fe) ==
    LET b == IncFires(breaker[t]) IN
    IF FireRejects(b)
    THEN /\ breaker' = [breaker EXCEPT ![t] = b]
         /\ Respond(t, ErrorStatus(b), "CircuitOpen")
         /\ UNCHANGED pool
    ELSE /\ breaker' = [breaker EXCEPT ![t] = b]
         /\ pool' = [pool EXCEPT ![t] = Run(@, t, fe)]
         /\ resp' = NoResp

\* mutant: every tier fires the breaker of tier free
Fire_sharedBreaker(t, fe) ==
    LET b == IncFires(breaker["free"]) IN
    IF FireRejects(b)
    THEN /\ breaker' = [breaker EXCEPT !["free"] = b]
         /\ Respond(t, ErrorStatus(b), "CircuitOpen")
         /\ UNCHANGED pool
    ELSE /\ breaker' = [breaker EXCEPT !["free"] = [b EXCEPT !.pendingClose = FALSE]]
         /\ pool' = [pool EXCEPT ![t] = Run(@, t, fe)]
         /\ resp' = NoResp

\* breakers[tier].fire(forceError) and the handler's try/catch around it
Fire(t, fe) ==
    LET b == IncFires(breaker[t]) IN
    IF FireRejects(b)
    THEN /\ breaker' = [breaker EXCEPT ![t] = b]
         /\ Respond(t, ErrorStatus(b), "CircuitOpen")
         /\ UNCHANGED pool
    ELSE /\ breaker' = [breaker EXCEPT ![t] = [b EXCEPT !.pendingClose = FALSE]]
         /\ pool' = [pool EXCEPT ![t] = Run(@, t, fe)]
         /\ resp' = NoResp

\* mutant: every tier is admitted by the limiter of tier free
LimiterOf_free(h) == "free"

\* limiters[tier]: the limiter is looked up by the request's own header
LimiterOf(h) == h

\* mutant: the breaker counts an attempt for a request the limiter denied
Request_countsDenied(h, ip, fe) ==
    /\ nreq' = nreq + 1
    /\ UNCHANGED conns
    /\ IF ~Truthy(threadPools, h)
       THEN /\ Respond(h, 400, "InvalidTier")
            /\ UNCHANGED <<limiter, win, breaker, pool>>
       ELSE IF Truthy(limiters, LimiterOf(h)) /\ LimiterOf(h) \notin DOMAIN limiters
       THEN \* limiters[h] is an inherited property without consume: the
            \* TypeError is thrown inside the try block
            /\ Respond(h, 429, "RateLimitExceeded")
            /\ UNCHANGED <<limiter, win, breaker, pool>>
       ELSE IF Truthy(limiters, LimiterOf(h))
       THEN LET l == LimiterOf(h)
                rec == Incrby(limiter[l][ip], l)
                denied == ConsumeRejects(rec, l)
            IN /\ limiter' = [limiter EXCEPT ![l][ip] = rec]
               /\ win' = [win EXCEPT ![l][ip] = Count(@, rec, denied)]
               /\ IF denied
                  THEN /\ Respond(h, 429, "RateLimitExceeded")
                       /\ breaker' = [breaker EXCEPT ![h] = IncFires(@)]
                       /\ UNCHANGED pool
                  ELSE Fire(h, fe)
       ELSE /\ UNCHANGED <<limiter, win>>
            /\ Fire(h, fe)

\* mutant: a request the breaker rejects consumes no point of its key
Request_breakerFirst(h, ip, fe) ==
    /\ nreq' = nreq + 1
    /\ UNCHANGED conns
    /\ IF ~Truthy(threadPools, h)
       THEN /\ Respond(h, 400, "InvalidTier")
            /\ UNCHANGED <<limiter, win, breaker, pool>>
       ELSE IF Truthy(limiters, LimiterOf(h)) /\ LimiterOf(h) \notin DOMAIN limiters
       THEN \* limiters[h] is an inherited property without consume: the
            \* TypeError is thrown inside the try block
            /\ Respond(h, 429, "RateLimitExceeded")
            /\ UNCHANGED <<limiter, win, breaker, pool>>
       ELSE IF Truthy(limiters, LimiterOf(h)) /\ FireRejects(IncFires(breaker[h]))
       THEN /\ UNCHANGED <<limiter, win>>
            /\ Fire(h, fe)
       ELSE IF Truthy(limiters, LimiterOf(h))
       THEN LET l == LimiterOf(h)
                rec == Incrby(limiter[l][ip], l)
                denied == ConsumeRejects(rec, l)
            IN /\ limiter' = [limiter EXCEPT ![l][ip] = rec]
               /\ win' = [win EXCEPT ![l][ip] = Count(@, rec, denied)]
               /\ IF denied
                  THEN /\ Respond(h, 429, "RateLimitExceeded")
                       /\ UNCHANGED <<breaker, pool>>
                  ELSE Fire(h, fe)
       ELSE /\ UNCHANGED <<limiter, win>>
            /\ Fire(h, fe)

\* the handler up to its first answer or to the dispatch of its task
Request(h, ip, fe) ==
    /\ nreq' = nreq + 1
    /\ UNCHANGED conns
    /\ IF ~Truthy(threadPools, h)
       THEN /\ Respond(h, 400, "InvalidTier")
            /\ UNCHANGED <<limiter, win, breaker, pool>>
       ELSE IF Truthy(limiters, LimiterOf(h)) /\ LimiterOf(h) \notin DOMAIN limiters
       THEN \* limiters[h] is an inherited property without consume: the
            \* TypeError is thrown inside the try block
            /\ Respond(h, 429, "RateLimitExceeded")
            /\ UNCHANGED <<limiter, win, breaker, pool>>
       ELSE IF Truthy(limiters, LimiterOf(h))
       THEN LET l == LimiterOf(h)
                rec == Incrby(limiter[l][ip], l)
                denied == ConsumeRejects(rec, l)
            IN /\ limiter' = [limiter EXCEPT ![l][ip] = rec]
               /\ win' = [win EXCEPT ![l][ip] = Count(@, rec, denied)]
               /\ IF denied
                  THEN /\ Respond(h, 429, "RateLimitExceeded")
                       /\ UNCHANGED <<breaker, pool>>
                  ELSE Fire(h, fe)
       ELSE /\ UNCHANGED <<limiter, win>>
            /\ Fire(h, fe)

----------------------------------------------------------------------------
(* The worker task (worker.js) and the main thread's handling of its result *)

\* mutant: a completion after the timeout is handled like one before it
Resolved_lateCounts(t, i) ==
    /\ pool' = [pool EXCEPT ![t] = Finish(@, i)]
    /\ breaker' = [breaker EXCEPT ![t] = Succeed(@)]
    /\ Respond(t, 200, "success")
    /\ UNCHANGED <<limiter, win, nreq>>

\* the task's promise resolved: opossum's then-branch and res.json(data)
Resolved(t, i) ==
    /\ pool' = [pool EXCEPT ![t] = Finish(@, i)]
    /\ IF pool[t][i].settled
       THEN /\ UNCHANGED breaker
            /\ resp' = NoResp
       ELSE /\ breaker' = [breaker EXCEPT ![t] = Succeed(@)]
            /\ Respond(t, 200, "success")
    /\ UNCHANGED <<limiter, win, nreq>>

\* the task's promise rejected: opossum's catch-branch and the handler's catch
Rejected(t, i) ==
    /\ pool' = [pool EXCEPT ![t] = Finish(@, i)]
    /\ IF pool[t][i].settled
       THEN /\ UNCHANGED breaker
            /\ resp' = NoResp
       ELSE LET b == Fail(breaker[t]) IN
            /\ breaker' = [breaker EXCEPT ![t] = b]
            /\ Respond(t, ErrorStatus(b), "failure")
    /\ UNCHANGED <<limiter, win, nreq>>

\* forceError === 'true': the task throws before it opens a pool
WorkerThrows(t, i) ==
    /\ i \in Running(pool[t])
    /\ pool[t][i].phase = "run"
    /\ pool[t][i].fe = "true"
    /\ Rejected(t, i)
    /\ UNCHANGED conns

\* new Pool(config); await pool.connect()
Connect(t, i) ==
    /\ i \in Running(pool[t])
    /\ pool[t][i].phase = "run"
    /\ pool[t][i].fe # "true"
    /\ pool' = [pool EXCEPT ![t][i].phase = "conn"]
    /\ conns' = [conns EXCEPT ![t] = @ + 1]
    /\ resp' = NoResp
    /\ UNCHANGED <<limiter, win, breaker, nreq>>

\* pool.connect() fails: nothing was acquired
ConnectFails(t, i) ==
    /\ i \in Running(pool[t])
    /\ pool[t][i].phase = "run"
    /\ pool[t][i].fe # "true"
    /\ Rejected(t, i)
    /\ UNCHANGED conns

\* the finally block: client.release(), pool.end()
Release(t) == conns' = [conns EXCEPT ![t] = @ - 1]

\* the query returns its rows, the finally block runs
QueryReturns(t, i) ==
    /\ i \in Connections(pool[t])
    /\ Release(t)
    /\ Resolved(t, i)

\* mutant: the connection is released only after a successful query
QueryFails_noFinally(t, i) ==
    /\ i \in Connections(pool[t])
    /\ UNCHANGED conns
    /\ Rejected(t, i)

\* the query throws, the finally block runs
QueryFails(t, i) ==
    /\ i \in Connections(pool[t])
    /\ Release(t)
    /\ Rejected(t, i)

----------------------------------------------------------------------------
(* GET /metrics/bulkheads, server.js lines 112-138                          *)

\* The pg pools of the main process: no statement of server.js connects or
\* queries through them, so their counters stay as constructed.
metricsPools ==
    [t \in Tiers |-> [totalCount |-> 0, idleCount |-> 0, waitingCount |-> 0]]

\* what /metrics/bulkheads reports as circuitBreaker.state, server.js line 132
MetricsState(b) ==
    IF opened(b) THEN "OPEN" ELSE IF halfOpen(b) THEN "HALF_OPEN" ELSE "CLOSED"

\* metrics[tier]; threadPool.active is threads.length, the worker threads of
\* the pool, taken here as the threads at work (Piscina keeps idle threads
\* besides, as many as the host's minThreads)
Metrics(t) ==
    [connectionPool |->
        [active  |-> metricsPools[t].totalCount - metricsPools[t].idleCount,
         idle    |-> metricsPools[t].idleCount,
         pending |-> metricsPools[t].waitingCount,
         max     |-> poolConfigs[t].max],
     threadPool |->
        [active   |-> Cardinality(Running(pool[t])),
         queued   |-> Cardinality(Queued(pool[t])),
         poolSize |-> threadPools[t].maxThreads],
     circuitBreaker |->
        [state    |-> MetricsState(breaker[t]),
         failures |-> stats(breaker[t]).failures]]

\* the handler answers with the snapshot of the state it runs in
GetMetrics ==
    /\ resp' = [tier |-> "all", status |-> 200, why |-> "metrics"]
    /\ UNCHANGED <<limiter, win, breaker, pool, nreq, conns>>

----------------------------------------------------------------------------
(* Timers                                                                   *)

\* mutant: the timeout answers the caller but the call stays pending
BreakerTimeout_staysPending(t, i) ==
    /\ i \in Pending(pool[t])
    /\ Due(pool[t][i].age, timeout)
    /\ pool' = [pool EXCEPT ![t][i].age = 0]
    /\ LET b == Fail(breaker[t]) IN
       /\ breaker' = [breaker EXCEPT ![t] = b]
       /\ Respond(t, ErrorStatus(b), "timeout")
    /\ UNCHANGED <<limiter, win, nreq, conns>>

\* opossum's timeout timer of a call: a failure; the task itself runs on
BreakerTimeout(t, i) ==
    /\ i \in Pending(pool[t])
    /\ Due(pool[t][i].age, timeout)
    /\ pool' = [pool EXCEPT ![t][i].settled = TRUE, ![t][i].age = 0]
    /\ LET b == Fail(breaker[t]) IN
       /\ breaker' = [breaker EXCEPT ![t] = b]
       /\ Respond(t, ErrorStatus(b), "timeout")
    /\ UNCHANGED <<limiter, win, nreq, conns>>

\* mutant: the reset timer fires without waiting for resetTimeout
ResetTimer_early(t) ==
    /\ opened(breaker[t])
    /\ breaker' = [breaker EXCEPT ![t].state = "HALF_OPEN",
                                  ![t].pendingClose = TRUE,
                                  ![t].openAge = 0]
    /\ resp' = NoResp
    /\ UNCHANGED <<limiter, win, pool, nreq, conns>>

\* opossum's reset timer: OPEN becomes HALF_OPEN, one trial may pass
ResetTimer(t) ==
    /\ opened(breaker[t])
    /\ Due(breaker[t].openAge, resetTimeout)
    /\ breaker' = [breaker EXCEPT ![t].state = "HALF_OPEN",
                                  ![t].pendingClose = TRUE,
                                  ![t].openAge = 0]
    /\ resp' = NoResp
    /\ UNCHANGED <<limiter, win, pool, nreq, conns>>

\* MemoryStorage's timer of a record: the key is deleted when its window ends
Expire(t, ip) ==
    /\ limiter[t][ip] # NoRec
    /\ Due(limiter[t][ip].age, limiters[t].duration * 1000)
    /\ limiter' = [limiter EXCEPT ![t][ip] = NoRec]
    /\ win' = [win EXCEPT ![t][ip] = NoWin]
    /\ resp' = NoResp
    /\ UNCHANGED <<breaker, pool, nreq, conns>>

TimerDue ==
    \/ \E t \in Tiers : \E i \in Pending(pool[t]) : Due(pool[t][i].age, timeout)
    \/ \E t \in Tiers : opened(breaker[t]) /\ Due(breaker[t].openAge, resetTimeout)
    \/ \E t \in DOMAIN limiters : \E ip \in Keys :
          limiter[t][ip] # NoRec /\ Due(limiter[t][ip].age, limiters[t].duration * 1000)

AgeTask(k) == IF k.settled THEN k ELSE [k EXCEPT !.age = @ + 1]

\* TickMs pass: every running timer is one tick older, every breaker's
\* window rotates
Tick ==
    /\ ~TimerDue
    /\ limiter' = [t \in DOMAIN limiters |-> [ip \in Keys |->
                     IF limiter[t][ip] = NoRec THEN NoRec
                     ELSE [limiter[t][ip] EXCEPT !.age = @ + 1]]]
    /\ breaker' = [t \in Tiers |->
                     [breaker[t] EXCEPT
                        !.openAge = IF opened(breaker[t]) THEN @ + 1 ELSE @,
                        !.window = Rotate(@)]]
    /\ pool' = [t \in Tiers |-> [i \in 1..Len(pool[t]) |-> AgeTask(pool[t][i])]]
    /\ resp' = NoResp
    /\ UNCHANGED <<win, nreq, conns>>

\* some breaker's timers or rolling window still hold something
Busy ==
    \E t \in Tiers :
        \/ Pending(pool[t]) # {}
        \/ opened(breaker[t])
        \/ stats(breaker[t]).fires + stats(breaker[t]).failures > 0

----------------------------------------------------------------------------
(* Arbitrary clients: up to MaxReq requests with any header, key and flag   *)
(* at any time; time passes while a breaker is busy                         *)

Next ==
    \/ nreq < MaxReq /\ \E h \in Headers, ip \in Keys, fe \in FeValues : Request(h, ip, fe)
    \/ \E t \in Tiers : \E i \in 1..Len(pool[t]) : WorkerThrows(t, i)
    \/ \E t \in Tiers : \E i \in 1..Len(pool[t]) : Connect(t, i)
    \/ \E t \in Tiers : \E i \in 1..Len(pool[t]) : ConnectFails(t, i)
    \/ \E t \in Tiers : \E i \in 1..Len(pool[t]) : QueryReturns(t, i)
    \/ \E t \in Tiers : \E i \in 1..Len(pool[t]) : QueryFails(t, i)
    \/ \E t \in Tiers : \E i \in 1..Len(pool[t]) : BreakerTimeout(t, i)
    \/ \E t \in Tiers : ResetTimer(t)
    \/ Busy /\ Tick

Spec == Init /\ [][Next]_vars

----------------------------------------------------------------------------
(* The clients of one tier: up to MaxTierReq requests to tier free, with    *)
(* either flag, at any time                                                 *)

NextTier ==
    \/ nreq < MaxTierReq /\ \E fe \in FeValues : Request("free", "ip1", fe)
    \/ \E i \in 1..Len(pool["free"]) : WorkerThrows("free", i)
    \/ \E i \in 1..Len(pool["free"]) : Connect("free", i)
    \/ \E i \in 1..Len(pool["free"]) : ConnectFails("free", i)
    \/ \E i \in 1..Len(pool["free"]) : QueryReturns("free", i)
    \/ \E i \in 1..Len(pool["free"]) : QueryFails("free", i)
    \/ \E i \in 1..Len(pool["free"]) : BreakerTimeout("free", i)
    \/ ResetTimer("free")
    \/ Busy /\ Tick

SpecTier == Init /\ [][NextTier]_vars

----------------------------------------------------------------------------
(* load-test.sh, step 3, on a fresh process: TripRequests requests to tier  *)
(* free with force_error=true, each sent when the one before was answered;  *)
(* the age of the caller's rate-limit window is the clock of the run        *)

NextTrip ==
    \/ /\ nreq < TripRequests
       /\ Pending(pool["free"]) = {}
       /\ Request("free", "ip1", "true")
    \/ \E i \in 1..Len(pool["free"]) : WorkerThrows("free", i)
    \/ \E i \in 1..Len(pool["free"]) : BreakerTimeout("free", i)
    \/ ResetTimer("free")
    \/ limiter["free"]["ip1"].age < MaxTripTicks /\ Busy /\ Tick

SpecTrip == Init /\ [][NextTrip]_vars

----------------------------------------------------------------------------
(* load-test.sh, step 1, for either limited tier: within one tick a caller  *)
(* floods one tier with more requests than its quota while a second caller  *)
(* sends a few; the downstream answers every query                          *)

FloodLimit(t, ip) ==
    IF ip = "ip1" THEN limiters[t].points + MaxExcess ELSE MaxExcess

NextRate ==
    \/ \E t \in DOMAIN limiters, ip \in Keys :
          /\ \A u \in DOMAIN limiters \ {t}, k \in Keys : limiter[u][k] = NoRec
          /\ limiter[t][ip].consumed < FloodLimit(t, ip)
          /\ Len(pool[t]) < MaxInflight
          /\ Request(t, ip, "none")
    \/ \E t \in DOMAIN limiters : \E i \in 1..Len(pool[t]) : Connect(t, i)
    \/ \E t \in DOMAIN limiters : \E i \in 1..Len(pool[t]) : QueryReturns(t, i)

SpecRate == Init /\ [][NextRate]_vars

----------------------------------------------------------------------------
(* load-test.sh, steps 1 and 2, with the downstream refusing the            *)
(* connections of tier free: within one tick a caller floods tier free      *)
(* while MaxEntReq requests go to tier enterprise, whose queries are        *)
(* answered; the first connection is refused when the flood has used up the *)
(* caller's quota                                                           *)

NextFlood ==
    \/ /\ limiter["free"]["ip1"].consumed < FloodLimit("free", "ip1")
       /\ Request("free", "ip1", "none")
    \/ /\ limiter["free"]["ip1"].consumed >= limiters["free"].points
       /\ \E i \in 1..Len(pool["free"]) : ConnectFails("free", i)
    \/ /\ stats(breaker["enterprise"]).fires < MaxEntReq
       /\ \E fe \in FeValues : Request("enterprise", "ip1", fe)
    \/ \E i \in 1..Len(pool["enterprise"]) : WorkerThrows("enterprise", i)
    \/ \E i \in 1..Len(pool["enterprise"]) : Connect("enterprise", i)
    \/ \E i \in 1..Len(pool["enterprise"]) : QueryReturns("enterprise", i)

SpecFlood == Init /\ [][NextFlood]_vars

----------------------------------------------------------------------------
(* A burst on tier free: within one tick a caller sends up to MaxBurst      *)
(* requests; the worker threads connect in the order of their tasks, the    *)
(* downstream answers some queries and stalls on others; the breaker's      *)
(* timeout timers fire in the order in which they were set; the metrics are *)
(* read at any time; MaxPoolTicks ticks pass                                *)

Oldest(S, i) == i \in S /\ \A j \in S : i <= j

NextPool ==
    \/ /\ nreq < MaxBurst
       /\ limiter["free"]["ip1"].age < 1
       /\ Request("free", "ip1", "none")
    \/ \E i \in 1..Len(pool["free"]) :
          /\ Oldest(Running(pool["free"]) \ Connections(pool["free"]), i)
          /\ Connect("free", i)
    \/ \E i \in 1..Len(pool["free"]) : QueryReturns("free", i)
    \/ \E i \in 1..Len(pool["free"]) :
          /\ Oldest(Pending(pool["free"]), i)
          /\ BreakerTimeout("free", i)
    \/ GetMetrics
    \/ limiter["free"]["ip1"].age < MaxPoolTicks /\ Busy /\ Tick

SpecPool == Init /\ [][NextPool]_vars

----------------------------------------------------------------------------
(* load-test.sh, step 2, at length: within one tick two callers send tier   *)
(* enterprise more requests than the largest quota of any tier, at most     *)
(* MaxInflight of them outstanding; the downstream answers every query      *)

EntFlood == limiters["pro"].points + MaxExcess

NextEnt ==
    \/ /\ nreq < EntFlood
       /\ Len(pool["enterprise"]) < MaxInflight
       /\ \E ip \in Keys : Request("enterprise", ip, "none")
    \/ \E i \in 1..Len(pool["enterprise"]) : Connect("enterprise", i)
    \/ \E i \in 1..Len(pool["enterprise"]) : QueryReturns("enterprise", i)

SpecEnt == Init /\ [][NextEnt]_vars

----------------------------------------------------------------------------
(* Two rate-limit windows of one key of tier free: the caller sends a burst *)
(* when its window starts and further requests, at any time of the window,  *)
(* when its quota is all but used up, WindowReqs requests in all; the       *)
(* downstream answers every query within the tick; the record's timer       *)
(* deletes it when the window has lasted `duration`                         *)

WindowReqs == 2 * FloodLimit("free", "ip1")

NextWindow ==
    \/ LET rec == limiter["free"]["ip1"] IN
       /\ nreq < WindowReqs
       /\ Len(pool["free"]) < MaxInflight
       /\ \/ rec.age < 1
          \/ rec.consumed \in (limiters["free"].points - 1)..(FloodLimit("free", "ip1") - 1)
          \/ rec.consumed >= limiters["free"].points - 1
                /\ Due(rec.age, limiters["free"].duration * 1000)
       /\ rec.age < 1 => rec.consumed < FloodLimit("free", "ip1")
       /\ Request("free", "ip1", "none")
    \/ \E i \in 1..Len(pool["free"]) : Connect("free", i)
    \/ \E i \in 1..Len(pool["free"]) : QueryReturns("free", i)
    \/ Expire("free", "ip1")
    \/ limiter["free"]["ip1"] # NoRec /\ pool["free"] = <<>> /\ Tick

SpecWindow == Init /\ [][NextWindow]_vars

----------------------------------------------------------------------------
(* The clients of tier free and a client without a valid tier, up to        *)
(* MaxTierReq requests in all, with a downstream that may answer, fail or   *)
(* stay silent for ever.  Only the timers are fair: time goes on while a    *)
(* breaker is busy, and a timer that is due fires.                          *)

NextLive ==
    \/ /\ nreq < MaxTierReq
       /\ \E h \in {"free", "gold"}, fe \in FeValues : Request(h, "ip1", fe)
    \/ \E i \in 1..Len(pool["free"]) : WorkerThrows("free", i)
    \/ \E i \in 1..Len(pool["free"]) : Connect("free", i)
    \/ \E i \in 1..Len(pool["free"]) : ConnectFails("free", i)
    \/ \E i \in 1..Len(pool["free"]) : QueryReturns("free", i)
    \/ \E i \in 1..Len(pool["free"]) : QueryFails("free", i)
    \/ \E i \in 1..Len(pool["free"]) : BreakerTimeout("free", i)
    \/ ResetTimer("free")
    \/ Busy /\ Tick

SpecLive ==
    /\ Init /\ [][NextLive]_vars
    /\ WF_vars(Busy /\ Tick)
    /\ WF_vars(\E i \in 1..Len(pool["free"]) : BreakerTimeout("free", i))
    /\ WF_vars(ResetTimer("free"))

----------------------------------------------------------------------------
(* Two callers of tier free within one tick: one sends up to MaxExcess      *)
(* requests with force_error=true, the other up to its quota and MaxExcess  *)
(* more without; at most MaxInflight tasks are in flight; the downstream    *)
(* answers every query                                                      *)

NextQuota ==
    \/ /\ limiter["free"]["ip2"].consumed < MaxExcess
       /\ Len(pool["free"]) < MaxInflight
       /\ Request("free", "ip2", "true")
    \/ /\ limiter["free"]["ip1"].consumed < FloodLimit("free", "ip1")
       /\ Len(pool["free"]) < MaxInflight
       /\ Request("free", "ip1", "none")
    \/ \E i \in 1..Len(pool["free"]) : WorkerThrows("free", i)
    \/ \E i \in 1..Len(pool["free"]) : Connect("free", i)
    \/ \E i \in 1..Len(pool["free"]) : QueryReturns("free", i)

SpecQuota == Init /\ [][NextQuota]_vars

----------------------------------------------------------------------------
(* Properties                                                               *)

\* a request with header t arrives and its handler runs
RequestStep(t) == \E ip \in Keys, fe \in FeValues : Request(t, ip, fe)

\* C5: while a tier's breaker is OPEN no task is added to the tier's worker
\* pool by any step, and a request arriving then is answered at once, as
\* CircuitOpen with status 503 unless the rate limiter denied it before.
C5_OpenRejects ==
    [][\A t \in Tiers :
          opened(breaker[t]) =>
             /\ Len(pool'[t]) <= Len(pool[t])
             /\ RequestStep(t) =>
                   /\ pool'[t] = pool[t]
                   /\ \/ resp' = [tier |-> t, status |-> 503, why |-> "CircuitOpen"]
                      \/ resp' = [tier |-> t, status |-> 429, why |-> "RateLimitExceeded"]]_vars

\* a request was just rejected by the OPEN breaker of tier free
C5_Witness ==
    /\ opened(breaker["free"])
    /\ resp = [tier |-> "free", status |-> 503, why |-> "CircuitOpen"]

\* C6 as claimed: a CLOSED breaker opens only at a failure, with a failure
\* ratio of at least the threshold, and never on the strength of a single
\* attempt (every minimum sample volume that is one exceeds one attempt).
C6_MinimumVolume ==
    [][\A t \in Tiers :
          closed(breaker[t]) /\ opened(breaker'[t]) =>
             /\ resp'.why \in {"failure", "timeout"}
             /\ stats(breaker'[t]).failures * 100
                   >= errorThresholdPercentage * stats(breaker'[t]).fires
             /\ stats(breaker'[t]).fires > 1]_vars

\* C7: a breaker leaves OPEN only for HALF_OPEN and only when resetTimeout has
\* passed since it opened; a request that passes the rate limiter while the
\* breaker is OPEN is rejected as CircuitOpen, and one that arrives when the
\* breaker has become HALF_OPEN and awaits its trial is executed as the trial.
C7_ResetTimeout ==
    [][\A t \in Tiers :
          /\ opened(breaker[t]) /\ ~opened(breaker'[t]) =>
                /\ halfOpen(breaker'[t])
                /\ breaker'[t].pendingClose
                /\ Due(breaker[t].openAge, resetTimeout)
          /\ opened(breaker[t]) /\ RequestStep(t) /\ resp'.status # 429 =>
                /\ resp'.why = "CircuitOpen"
                /\ opened(breaker'[t])
          /\ halfOpen(breaker[t]) /\ breaker[t].pendingClose
                /\ RequestStep(t) /\ resp'.status # 429 =>
                /\ resp' = NoResp
                /\ Len(pool'[t]) = Len(pool[t]) + 1
                /\ ~breaker'[t].pendingClose]_vars

\* the trial of tier free is in flight
C7_Witness ==
    /\ halfOpen(breaker["free"])
    /\ ~breaker["free"].pendingClose
    /\ Cardinality(Pending(pool["free"])) = 1

\* C8: in HALF_OPEN at most one execution is pending, and none before the
\* trial was let through.
C8_OneTrial ==
    \A t \in Tiers :
        halfOpen(breaker[t]) =>
           /\ Cardinality(Pending(pool[t])) <= 1
           /\ breaker[t].pendingClose => Pending(pool[t]) = {}

\* a request was just rejected while the trial of tier free is in flight
C8_Witness ==
    /\ halfOpen(breaker["free"])
    /\ Cardinality(Pending(pool["free"])) = 1
    /\ resp.why = "CircuitOpen"

\* C9: the breaker's state changes only CLOSED -> OPEN, OPEN -> HALF_OPEN,
\* HALF_OPEN -> CLOSED at a success and HALF_OPEN -> OPEN at a failure or
\* timeout of a pending execution.
C9_Transitions ==
    [][\A t \in Tiers :
          breaker'[t].state # breaker[t].state =>
             \/ closed(breaker[t]) /\ opened(breaker'[t])
             \/ opened(breaker[t]) /\ halfOpen(breaker'[t])
             \/ /\ halfOpen(breaker[t]) /\ closed(breaker'[t])
                /\ resp' = [tier |-> t, status |-> 200, why |-> "success"]
                /\ Cardinality(Pending(pool[t])) = 1
             \/ /\ halfOpen(breaker[t]) /\ opened(breaker'[t])
                /\ resp'.why \in {"failure", "timeout"}
                /\ Cardinality(Pending(pool[t])) = 1]_vars

\* the trial of tier free just failed and reopened the breaker: the error
\* rate of the window alone would not have opened it
C9_Witness ==
    /\ opened(breaker["free"])
    /\ breaker["free"].openAge = 0
    /\ resp.why \in {"failure", "timeout"}
    /\ stats(breaker["free"]).failures * 100
          <= errorThresholdPercentage * stats(breaker["free"]).fires

\* C10 as claimed: every request the breaker rejects without executing it is
\* answered with status 503.
C10_RejectedIs503 ==
    resp.why = "CircuitOpen" => resp.status = 503

\* the components of tier b
TierUnchanged(b) ==
    /\ breaker'[b] = breaker[b]
    /\ pool'[b] = pool[b]
    /\ conns'[b] = conns[b]
    /\ b \in DOMAIN limiters => limiter'[b] = limiter[b] /\ win'[b] = win[b]

\* a step of tier a: a request with header a, a step of one of its worker
\* tasks, one of its breaker's timers
StepOf(a) ==
    \/ RequestStep(a)
    \/ \E i \in 1..Len(pool[a]) :
          \/ WorkerThrows(a, i) \/ Connect(a, i) \/ ConnectFails(a, i)
          \/ QueryReturns(a, i) \/ QueryFails(a, i) \/ BreakerTimeout(a, i)
    \/ ResetTimer(a)

C4_TenFailuresOpen ==
    nreq = TripRequests /\ resp # NoResp =>
       /\ MetricsState(breaker["free"]) = "OPEN"
       /\ MetricsState(breaker["pro"]) = "CLOSED"
       /\ MetricsState(breaker["enterprise"]) = "CLOSED"

\* the tenth request was just answered
C4_Witness ==
    /\ nreq = TripRequests
    /\ resp.tier = "free"
    /\ resp.status = 503
    /\ opened(breaker["free"])

\* C1: in one window of a key of a rate-limited tier at most `points`
\* requests are admitted, and once the key has sent more than `points`
\* requests exactly `points` were admitted and all the others answered 429;
\* the request being answered 429 is the one that was just denied.
C1_Quota ==
    \A t \in DOMAIN limiters, ip \in Keys :
        LET w == win[t][ip] IN
        /\ w.admitted <= limiters[t].points
        /\ w.admitted + w.denied > limiters[t].points =>
              w.admitted = limiters[t].points
        /\ w.admitted + w.denied > 0 /\ resp.tier = t =>
              (resp.status = 429 <=> resp.why = "RateLimitExceeded")

\* 105 requests of one key on tier free: 100 admitted, 5 answered 429, while
\* the second key of the tier is still admitted
C1_Witness ==
    /\ win["free"]["ip1"] = [admitted |-> 100, denied |-> 5]
    /\ resp = [tier |-> "free", status |-> 429, why |-> "RateLimitExceeded"]
    /\ win["free"]["ip2"].admitted > 0
    /\ win["free"]["ip2"].denied = 0

\* tier free is degraded: breaker OPEN, the key's quota used up, every worker
\* thread taken and tasks queued
FreeDegraded ==
    /\ opened(breaker["free"])
    /\ limiter["free"]["ip1"].consumed >= limiters["free"].points
    /\ Cardinality(Running(pool["free"])) = threadPools["free"].maxThreads
    /\ Queued(pool["free"]) # {}

\* C3: while tier free is degraded, a request to tier enterprise is never
\* answered 429, is executed at once on a worker thread of its own pool unless
\* enterprise's own breaker rejects it, and, when its query returns while its
\* call is pending, is answered 200.
C3_EnterpriseUnaffected ==
    [][FreeDegraded =>
          /\ RequestStep("enterprise") =>
                /\ resp'.status # 429
                /\ closed(breaker["enterprise"]) =>
                      /\ resp' = NoResp
                      /\ Len(pool'["enterprise"]) = Len(pool["enterprise"]) + 1
                      /\ pool'["enterprise"][Len(pool'["enterprise"])].phase = "run"
          /\ \A i \in 1..Len(pool["enterprise"]) :
                QueryReturns("enterprise", i) /\ ~pool["enterprise"][i].settled =>
                   resp' = [tier |-> "enterprise", status |-> 200, why |-> "success"]]_vars

\* an enterprise request was just answered 200 while tier free is degraded
C3_Witness ==
    /\ FreeDegraded
    /\ resp = [tier |-> "enterprise", status |-> 200, why |-> "success"]

\* C11 as claimed: every request whose task was executed and failed, or whose
\* execution was cut off by the breaker timeout, is answered with status 500.
C11_FailureIs500 ==
    resp.why \in {"failure", "timeout"} => resp.status = 500

\* C12 as claimed: a request whose X-Tenant-Tier header is none of free, pro
\* and enterprise is answered 400 InvalidTier, and its handler changes no
\* limiter record, no breaker and no worker pool.
C12_UnknownTierIs400 ==
    [][\A h \in Headers \ Tiers :
          RequestStep(h) =>
             /\ resp' = [tier |-> h, status |-> 400, why |-> "InvalidTier"]
             /\ UNCHANGED <<limiter, win, breaker, pool, conns>>]_vars

\* C13: on a rate-limited tier a request answered 429 leaves every breaker,
\* worker pool and connection count as it was, and a request that changes its
\* tier's breaker (an attempt counted, rejected or executed) has consumed a
\* point of its key within the quota in the same step.
C13_AdmissionFirst ==
    [][\A t \in DOMAIN limiters :
          RequestStep(t) =>
             /\ resp'.status = 429 =>
                   /\ breaker' = breaker
                   /\ pool' = pool
                   /\ conns' = conns
             /\ breaker'[t] # breaker[t] =>
                   \E ip \in Keys :
                      /\ limiter'[t][ip] # limiter[t][ip]
                      /\ limiter'[t][ip].consumed \in 1..limiters[t].points]_vars

\* a request to tier free was just denied while the breaker is OPEN: the
\* breaker has counted the admitted requests only
C13_Witness ==
    /\ resp = [tier |-> "free", status |-> 429, why |-> "RateLimitExceeded"]
    /\ opened(breaker["free"])
    /\ limiter["free"]["ip1"].consumed > limiters["free"].points
    /\ stats(breaker["free"]).fires = limiters["free"].points

\* C14 as claimed: the connections held on behalf of a tier never exceed the
\* tier's configured connection-pool max.
C14_ConnectionsWithinMax ==
    \A t \in Tiers : conns[t] <= poolConfigs[t].max

\* C17 as claimed: a task whose caller was cut off by the breaker timeout no
\* longer occupies a worker thread of its tier.
C17_TimedOutFreesSlot ==
    \A t \in Tiers : \A i \in Running(pool[t]) : ~pool[t][i].settled

\* C18 as claimed: an admitted request that is still waiting for a worker
\* thread when its wait is cut off is answered with status 503, and the
\* tier's breaker counts one failure for it.
C18_ResourceExhausted ==
    [][\A t \in Tiers : \A i \in 1..Len(pool[t]) :
          BreakerTimeout(t, i) /\ i \in Queued(pool[t]) =>
             /\ resp'.status = 503
             /\ stats(breaker'[t]).failures = stats(breaker[t]).failures + 1]_vars

\* C20 as claimed: the snapshot of a tier reports the connections its worker
\* tasks hold, its queued tasks and its breaker's state.
C20_MetricsLive ==
    \A t \in Tiers :
        /\ Metrics(t).connectionPool.active = conns[t]
        /\ Metrics(t).threadPool.queued = Cardinality(Queued(pool[t]))
        /\ Metrics(t).circuitBreaker.state = breaker[t].state

\* a step of a worker task of tier t that ends the task
Completes(t, i) ==
    \/ WorkerThrows(t, i) \/ ConnectFails(t, i)
    \/ QueryReturns(t, i) \/ QueryFails(t, i)

\* C15: a task that ends after pool.connect() succeeded gives back exactly
\* one connection, whether its query returned or threw; a task that ends
\* before (injected fault, connect failure) gives back none; so a tier holds
\* one connection per task between connect and its finally block, and none
\* when all its tasks have finished.
C15_ReleasedOnce ==
    [][\A t \in Tiers :
          /\ \A i \in 1..Len(pool[t]) :
                /\ QueryReturns(t, i) \/ QueryFails(t, i) => conns'[t] = conns[t] - 1
                /\ WorkerThrows(t, i) \/ ConnectFails(t, i) => conns'[t] = conns[t]
          /\ conns'[t] = Cardinality(Connections(pool'[t]))
          /\ pool'[t] = <<>> => conns'[t] = 0]_vars

\* tasks of tier free without injected fault have ended, one of them just
\* now in failure and another one successfully, while the last one holds
\* its connection: the tier holds exactly that one
C15_Witness ==
    /\ nreq = MaxTierReq
    /\ Len(pool["free"]) = 1
    /\ pool["free"][1].phase = "conn"
    /\ pool["free"][1].fe = "none"
    /\ conns["free"] = 1
    /\ resp.why = "failure"
    /\ stats(breaker["free"]) = [fires |-> MaxTierReq, failures |-> 1]

\* C16: a pending execution is never older than the breaker timeout; the
\* timeout fires `timeout` ms after the call, answers the caller and counts
\* exactly one failure and no attempt; when the task of a call that timed
\* out ends later, in whatever way, the breaker is left as it is and no
\* second answer is sent.
C16_TimeoutOnce ==
    [][\A t \in Tiers :
          /\ \A i \in Pending(pool'[t]) : pool'[t][i].age * TickMs <= timeout
          /\ \A i \in 1..Len(pool[t]) :
                /\ BreakerTimeout(t, i) =>
                      /\ pool[t][i].age * TickMs = timeout
                      /\ resp'.tier = t /\ resp'.status \in {500, 503}
                      /\ stats(breaker'[t]).failures = stats(breaker[t]).failures + 1
                      /\ stats(breaker'[t]).fires = stats(breaker[t]).fires
                /\ pool[t][i].settled /\ Completes(t, i) =>
                      /\ breaker' = breaker
                      /\ resp' = NoResp]_vars

\* the task of the one call of tier free, which timed out in this tick, has
\* just ended: one attempt and one failure are counted
C16_Witness ==
    /\ pool["free"] = <<>>
    /\ resp = NoResp
    /\ breaker["free"].window[1].failures = 1
    /\ stats(breaker["free"]) = [fires |-> 1, failures |-> 1]

\* C19: tier enterprise has no limiter: a request to it is never answered
\* 429 and leaves every limiter record as it was, and no record is kept for
\* the tier.
C19_EnterpriseUnlimited ==
    [][/\ "enterprise" \notin DOMAIN limiter'
       /\ RequestStep("enterprise") =>
             /\ resp'.status # 429
             /\ limiter' = limiter
             /\ win' = win]_vars

\* more requests than the largest quota were sent to tier enterprise within
\* one tick, and the last one was answered 200
C19_Witness ==
    /\ nreq = EntFlood
    /\ stats(breaker["enterprise"]).fires > limiters["pro"].points
    /\ resp = [tier |-> "enterprise", status |-> 200, why |-> "success"]
    /\ pool["enterprise"] = <<>>

\* C21: a request of a key that has no record, or whose record has lasted
\* `duration`, starts a window with a count of one and is admitted; a request
\* within the window adds one to the count, leaves the window's start where
\* it was, and is denied exactly when the count exceeds the quota; a record
\* is deleted only when its window has lasted `duration` and never lasts
\* longer; the count of a window is the number of requests of that window.
C21_FixedWindow ==
    [][\A t \in DOMAIN limiters, ip \in Keys :
          LET rec == limiter[t][ip]
              new == limiter'[t][ip]
              ms  == limiters[t].duration * 1000
          IN /\ (\E fe \in FeValues : Request(t, ip, fe)) =>
                   IF rec = NoRec \/ rec.age * TickMs >= ms
                   THEN /\ new = [consumed |-> 1, age |-> 0]
                        /\ resp'.status # 429
                        /\ win'[t][ip].admitted + win'[t][ip].denied = 1
                   ELSE /\ new = [consumed |-> rec.consumed + 1, age |-> rec.age]
                        /\ resp'.status = 429 <=> new.consumed > limiters[t].points
             /\ rec # NoRec /\ new = NoRec => rec.age * TickMs >= ms
             /\ new # NoRec =>
                   /\ new.age * TickMs <= ms
                   /\ win'[t][ip].admitted + win'[t][ip].denied = new.consumed
                   /\ win'[t][ip].admitted <= limiters[t].points]_vars

\* the key, denied in its first window, has been admitted up to the full
\* quota in its second window and is denied again
C21_Witness ==
    /\ nreq = WindowReqs
    /\ win["free"]["ip1"] = [admitted |-> limiters["free"].points, denied |-> MaxExcess]
    /\ limiter["free"]["ip1"].age > 0
    /\ resp = [tier |-> "free", status |-> 429, why |-> "RateLimitExceeded"]

\* requests received and not yet answered: the calls pending in the breakers
Waiting ==
    Cardinality(Pending(pool["free"])) + Cardinality(Pending(pool["pro"]))
       + Cardinality(Pending(pool["enterprise"]))

C23_PointBeforeBreaker ==
    [][\A t \in DOMAIN limiters, ip \in Keys :
          (\E fe \in FeValues : Request(t, ip, fe)) =>
             LET rec == limiter[t][ip]
                 new == limiter'[t][ip]
             IN /\ new.consumed =
                      IF rec = NoRec \/ Due(rec.age, limiters[t].duration * 1000)
                      THEN 1 ELSE rec.consumed + 1
                /\ resp'.status = 429 <=> new.consumed > limiters[t].points
                /\ resp'.status = 429 => breaker' = breaker
                /\ resp'.status # 429 =>
                      stats(breaker'[t]).fires = stats(breaker[t]).fires + 1
                /\ opened(breaker[t]) /\ resp'.status # 429 =>
                      /\ resp' = [tier |-> t, status |-> 503, why |-> "CircuitOpen"]
                      /\ pool' = pool]_vars

\* the second caller's one request failed and opened the breaker before any
\* request of the first caller was counted by it; the first caller's
\* requests, none of them executed, have used up its quota, and it was just
\* answered 429 while the breaker is OPEN
C23_Witness ==
    /\ opened(breaker["free"])
    /\ resp = [tier |-> "free", status |-> 429, why |-> "RateLimitExceeded"]
    /\ limiter["free"]["ip2"].consumed = 1
    /\ win["free"]["ip1"] = [admitted |-> limiters["free"].points, denied |-> 1]
    /\ stats(breaker["free"]) =
          [fires |-> limiters["free"].points + 1, failures |-> 1]
    /\ pool["free"] = <<>>

====
